---------------------------- MODULE Spec2Model ----------------------------
(* khopesh: the BGV demonstration session (main) and the Twilio            *)
(* send_message wrapper, as two state machines over one set of variables.  *)
(*                                                                         *)
(* Spec      : main of the BGV example, one action per statement.          *)
(* SendSpec  : one call of Twilio::send_message, one action per step.      *)
(*                                                                         *)
(* The encryption library and libcurl are external.  A ciphertext is       *)
(* represented by the public key it was made under and the plaintext       *)
(* vector it stands for (the library's homomorphic contract); noise is     *)
(* not represented.  A curl easy handle is represented by its lifetime     *)
(* (none / null / live / freed) and the status of its last transfer.       *)
EXTENDS Integers, Sequences, FiniteSets, TLC

VARIABLES
    \* ---- main (BGV session) ----
    mpc,              \* position in main
    context,          \* helib::Context: [built, m, p, r, bits, c]
    secret_key,       \* helib::SecKey: [created, generated, ksMatrices]
    public_key,       \* const PubKey& bound to secret_key (TRUE once bound)
    nslots,           \* ea.size()
    ptxt,             \* helib::Ptxt<BGV> ptxt, a sequence of slots
    i,                \* loop index of the fill loop
    ctxt,             \* helib::Ctxt ctxt
    ctxt2,            \* helib::Ctxt ctxt2
    plaintext_result, \* helib::Ptxt<BGV> plaintext_result
    out,              \* what main printed: <<decrypted slot 0, plaintext>>
    \* ---- Twilio::send_message ----
    tpc,              \* position in send_message
    picture_url,      \* "" or a url
    verbose,          \* bool verbose
    body_size,        \* converted_message_body.size(), -1 before conversion
    curl,             \* the easy handle: "none", "null", "live", "freed"
    transfer,         \* [done, status]: what the handle recorded
    escaped,          \* message_body_escaped: "none", "alloc", "freed"
    parameters,       \* fields of the POST body
    opts,             \* options set on the handle
    res,              \* CURLcode res: "unset", "CURLE_OK", "error"
    http_code,        \* long http_code
    response_stream,  \* std::stringstream response_stream
    response,         \* std::string& response
    ret,              \* return value: "none", TRUE, FALSE
    globalInits,      \* calls of curl_global_init
    requests,         \* calls of curl_easy_perform
    staleUse          \* TRUE once the handle was used after curl_easy_cleanup

mainVars == <<mpc, context, secret_key, public_key, nslots, ptxt, i, ctxt,
              ctxt2, plaintext_result, out>>
sendVars == <<tpc, picture_url, verbose, body_size, curl, transfer, escaped,
              parameters, opts, res, http_code, response_stream, response,
              ret, globalInits, requests, staleUse>>
vars == <<mainVars, sendVars>>

---------------------------------------------------------------------------
(* Program constants of main *)

\* unsigned long p = 7777801
p == 7777801
\* unsigned long m = 32109
m == 32109
\* unsigned long r = 1
r == 1
\* unsigned long bits = 500
bits == 500
\* unsigned long c = 2
c == 2
\* ctxt.addConstant(NTL::ZZX(-5l))
CtxtConstant == -5
\* ptxt.addConstant(NTL::ZZX(7778015l))
PtxtConstant == 7778015
\* ctxt2.addConstant(NTL::ZZX(2l))
Ctxt2Constant == 2

(* Bounds of the model *)

\* ea.size() is fixed by (m, p) inside the library; the model lets it be
\* any slot count from 1 to MaxSlots.
MaxSlots == 6

---------------------------------------------------------------------------
(* Plaintext vectors: Ptxt<BGV>, slots reduced modulo p *)

NoValue == <<"none">>

ZeroVector(n) == [k \in 1..n |-> 0]

Ptxt_multiplyBy(a, b) == [k \in 1..Len(a) |-> (a[k] * b[k]) % p]

Ptxt_plusEq(a, b) == [k \in 1..Len(a) |-> (a[k] + b[k]) % p]

Ptxt_minusEq(a, b) == [k \in 1..Len(a) |-> (a[k] - b[k]) % p]

Ptxt_addConstant(a, k0) == [k \in 1..Len(a) |-> (a[k] + k0) % p]

(* Ciphertexts: Ctxt, bound to a public key, standing for a slot vector *)

EmptyCtxt == [pubKey |-> 0, slots |-> <<>>]

KeyId(sk) == IF sk.generated THEN 1 ELSE 0

Encrypt(pk, v) == [pubKey |-> pk, slots |-> v]

Decrypt(sk, ct) == IF ct.pubKey = KeyId(sk) /\ sk.generated THEN ct.slots ELSE NoValue

Ctxt_multiplyBy(a, b) ==
    [pubKey |-> a.pubKey,
     slots |-> [k \in 1..Len(a.slots) |-> (a.slots[k] * b.slots[k]) % p]]

Ctxt_plusEq(a, b) ==
    [pubKey |-> a.pubKey,
     slots |-> [k \in 1..Len(a.slots) |-> (a.slots[k] + b.slots[k]) % p]]

\* a faulty subtraction: adds instead of subtracting
Ctxt_minusEqBad(a, b) ==
    [pubKey |-> a.pubKey,
     slots |-> [k \in 1..Len(a.slots) |-> (a.slots[k] + b.slots[k]) % p]]

\* ctxt -= other
Ctxt_minusEq(a, b) ==
    [pubKey |-> a.pubKey,
     slots |-> [k \in 1..Len(a.slots) |-> (a.slots[k] - b.slots[k]) % p]]

Ctxt_addConstant(a, k0) ==
    [pubKey |-> a.pubKey,
     slots |-> [k \in 1..Len(a.slots) |-> (a.slots[k] + k0) % p]]

---------------------------------------------------------------------------
(* main, statement by statement *)

MainInit ==
    /\ mpc = "context"
    /\ context = [built |-> FALSE, m |-> 0, p |-> 0, r |-> 0, bits |-> 0, c |-> 0]
    /\ secret_key = [created |-> FALSE, generated |-> FALSE, ksMatrices |-> FALSE]
    /\ public_key = FALSE
    /\ nslots = 0
    /\ ptxt = <<>>
    /\ i = 0
    /\ ctxt = EmptyCtxt
    /\ ctxt2 = EmptyCtxt
    /\ plaintext_result = <<>>
    /\ out = NoValue

\* helib::Context context(m, p, r)
NewContext ==
    /\ mpc = "context"
    /\ context' = [context EXCEPT !.built = TRUE, !.m = m, !.p = p, !.r = r]
    /\ mpc' = "modchain"
    /\ UNCHANGED sendVars
    /\ UNCHANGED <<secret_key, public_key, nslots, ptxt, i, ctxt, ctxt2,
                   plaintext_result, out>>

\* buildModChain(context, bits, c)
BuildModChain ==
    /\ mpc = "modchain"
    /\ context' = [context EXCEPT !.bits = bits, !.c = c]
    /\ mpc' = "seckey"
    /\ UNCHANGED sendVars
    /\ UNCHANGED <<secret_key, public_key, nslots, ptxt, i, ctxt, ctxt2,
                   plaintext_result, out>>

\* helib::SecKey secret_key(context)
NewSecKey ==
    /\ mpc = "seckey"
    /\ secret_key' = [secret_key EXCEPT !.created = TRUE]
    /\ mpc' = "gensk"
    /\ UNCHANGED sendVars
    /\ UNCHANGED <<context, public_key, nslots, ptxt, i, ctxt, ctxt2,
                   plaintext_result, out>>

\* secret_key.GenSecKey()
GenSecKey ==
    /\ mpc = "gensk"
    /\ secret_key' = [secret_key EXCEPT !.generated = TRUE]
    /\ mpc' = "ksmat"
    /\ UNCHANGED sendVars
    /\ UNCHANGED <<context, public_key, nslots, ptxt, i, ctxt, ctxt2,
                   plaintext_result, out>>

\* helib::addSome1DMatrices(secret_key)
AddSome1DMatrices ==
    /\ mpc = "ksmat"
    /\ secret_key' = [secret_key EXCEPT !.ksMatrices = TRUE]
    /\ mpc' = "pubkey"
    /\ UNCHANGED sendVars
    /\ UNCHANGED <<context, public_key, nslots, ptxt, i, ctxt, ctxt2,
                   plaintext_result, out>>

\* const helib::PubKey& public_key = secret_key
BindPublicKey ==
    /\ mpc = "pubkey"
    /\ public_key' = TRUE
    /\ mpc' = "nslots"
    /\ UNCHANGED sendVars
    /\ UNCHANGED <<context, secret_key, nslots, ptxt, i, ctxt, ctxt2,
                   plaintext_result, out>>

\* long nslots = ea.size()
GetNSlots ==
    /\ mpc = "nslots"
    /\ \E n \in 1..MaxSlots : nslots' = n
    /\ mpc' = "ptxt"
    /\ UNCHANGED sendVars
    /\ UNCHANGED <<context, secret_key, public_key, ptxt, i, ctxt, ctxt2,
                   plaintext_result, out>>

\* helib::Ptxt<helib::BGV> ptxt(context); int i = 0
NewPtxt ==
    /\ mpc = "ptxt"
    /\ ptxt' = ZeroVector(nslots)
    /\ i' = 0
    /\ mpc' = "fill"
    /\ UNCHANGED sendVars
    /\ UNCHANGED <<context, secret_key, public_key, nslots, ctxt, ctxt2,
                   plaintext_result, out>>

\* for (...; i < ptxt.size(); ++i) ptxt[i] = i
FillSlot ==
    /\ mpc = "fill"
    /\ i < Len(ptxt)
    /\ ptxt' = [ptxt EXCEPT ![i + 1] = i % p]
    /\ i' = i + 1
    /\ UNCHANGED sendVars
    /\ UNCHANGED <<mpc, context, secret_key, public_key, nslots, ctxt, ctxt2,
                   plaintext_result, out>>

\* the loop's exit; helib::Ctxt ctxt(public_key)
FillDone ==
    /\ mpc = "fill"
    /\ ~(i < Len(ptxt))
    /\ ctxt' = EmptyCtxt
    /\ mpc' = "enc1"
    /\ UNCHANGED sendVars
    /\ UNCHANGED <<context, secret_key, public_key, nslots, ptxt, i, ctxt2,
                   plaintext_result, out>>

\* public_key.Encrypt(ctxt, ptxt)
Encrypt1 ==
    /\ mpc = "enc1"
    /\ ctxt' = Encrypt(KeyId(secret_key), ptxt)
    /\ mpc' = "enc2"
    /\ UNCHANGED sendVars
    /\ UNCHANGED <<context, secret_key, public_key, nslots, ptxt, i, ctxt2,
                   plaintext_result, out>>

\* helib::Ctxt ctxt2(public_key); public_key.Encrypt(ctxt2, ptxt)
Encrypt2 ==
    /\ mpc = "enc2"
    /\ ctxt2' = Encrypt(KeyId(secret_key), ptxt)
    /\ mpc' = "sq_c"
    /\ UNCHANGED sendVars
    /\ UNCHANGED <<context, secret_key, public_key, nslots, ptxt, i, ctxt,
                   plaintext_result, out>>

\* ctxt.multiplyBy(ctxt)
SquareCtxt ==
    /\ mpc = "sq_c"
    /\ ctxt' = Ctxt_multiplyBy(ctxt, ctxt)
    /\ mpc' = "sq_p"
    /\ UNCHANGED sendVars
    /\ UNCHANGED <<context, secret_key, public_key, nslots, ptxt, i, ctxt2,
                   plaintext_result, out>>

\* ptxt.multiplyBy(ptxt)
SquarePtxt ==
    /\ mpc = "sq_p"
    /\ ptxt' = Ptxt_multiplyBy(ptxt, ptxt)
    /\ mpc' = "dbl_c"
    /\ UNCHANGED sendVars
    /\ UNCHANGED <<context, secret_key, public_key, nslots, i, ctxt, ctxt2,
                   plaintext_result, out>>

\* ctxt += ctxt
DoubleCtxt ==
    /\ mpc = "dbl_c"
    /\ ctxt' = Ctxt_plusEq(ctxt, ctxt)
    /\ mpc' = "dbl_p"
    /\ UNCHANGED sendVars
    /\ UNCHANGED <<context, secret_key, public_key, nslots, ptxt, i, ctxt2,
                   plaintext_result, out>>

\* ptxt += ptxt
DoublePtxt ==
    /\ mpc = "dbl_p"
    /\ ptxt' = Ptxt_plusEq(ptxt, ptxt)
    /\ mpc' = "sub_c"
    /\ UNCHANGED sendVars
    /\ UNCHANGED <<context, secret_key, public_key, nslots, i, ctxt, ctxt2,
                   plaintext_result, out>>

\* ctxt -= ctxt
SubCtxt ==
    /\ mpc = "sub_c"
    /\ ctxt' = Ctxt_minusEq(ctxt, ctxt)
    /\ mpc' = "sub_p"
    /\ UNCHANGED sendVars
    /\ UNCHANGED <<context, secret_key, public_key, nslots, ptxt, i, ctxt2,
                   plaintext_result, out>>

\* ptxt -= ptxt
SubPtxt ==
    /\ mpc = "sub_p"
    /\ ptxt' = Ptxt_minusEq(ptxt, ptxt)
    /\ mpc' = "addc_c"
    /\ UNCHANGED sendVars
    /\ UNCHANGED <<context, secret_key, public_key, nslots, i, ctxt, ctxt2,
                   plaintext_result, out>>

\* ctxt.addConstant(NTL::ZZX(-5l))
AddConstCtxt ==
    /\ mpc = "addc_c"
    /\ ctxt' = Ctxt_addConstant(ctxt, CtxtConstant)
    /\ mpc' = "addc_p"
    /\ UNCHANGED sendVars
    /\ UNCHANGED <<context, secret_key, public_key, nslots, ptxt, i, ctxt2,
                   plaintext_result, out>>

\* ptxt.addConstant(NTL::ZZX(7778015l))
AddConstPtxt ==
    /\ mpc = "addc_p"
    /\ ptxt' = Ptxt_addConstant(ptxt, PtxtConstant)
    /\ mpc' = "addc_c2"
    /\ UNCHANGED sendVars
    /\ UNCHANGED <<context, secret_key, public_key, nslots, i, ctxt, ctxt2,
                   plaintext_result, out>>

\* ctxt2.addConstant(NTL::ZZX(2l))
AddConstCtxt2 ==
    /\ mpc = "addc_c2"
    /\ ctxt2' = Ctxt_addConstant(ctxt2, Ctxt2Constant)
    /\ mpc' = "sub_c2"
    /\ UNCHANGED sendVars
    /\ UNCHANGED <<context, secret_key, public_key, nslots, ptxt, i, ctxt,
                   plaintext_result, out>>

\* ctxt2 -= ctxt
SubCtxt2 ==
    /\ mpc = "sub_c2"
    /\ ctxt2' = Ctxt_minusEq(ctxt2, ctxt)
    /\ mpc' = "dec"
    /\ UNCHANGED sendVars
    /\ UNCHANGED <<context, secret_key, public_key, nslots, ptxt, i, ctxt,
                   plaintext_result, out>>

\* helib::Ptxt<helib::BGV> plaintext_result(context);
\* secret_key.Decrypt(plaintext_result, ctxt)
DecryptCtxt ==
    /\ mpc = "dec"
    /\ plaintext_result' = Decrypt(secret_key, ctxt)
    /\ mpc' = "print"
    /\ UNCHANGED sendVars
    /\ UNCHANGED <<context, secret_key, public_key, nslots, ptxt, i, ctxt,
                   ctxt2, out>>

\* std::cout << plaintext_result[0].getData() ... << ptxt; return 0
PrintResults ==
    /\ mpc = "print"
    /\ out' = <<plaintext_result[1], ptxt>>
    /\ mpc' = "done"
    /\ UNCHANGED sendVars
    /\ UNCHANGED <<context, secret_key, public_key, nslots, ptxt, i, ctxt,
                   ctxt2, plaintext_result>>

\* main: the statement at mpc runs
Next ==
    \/ NewContext \/ BuildModChain \/ NewSecKey \/ GenSecKey
    \/ AddSome1DMatrices \/ BindPublicKey \/ GetNSlots \/ NewPtxt
    \/ FillSlot \/ FillDone \/ Encrypt1 \/ Encrypt2
    \/ SquareCtxt \/ SquarePtxt \/ DoubleCtxt \/ DoublePtxt
    \/ SubCtxt \/ SubPtxt \/ AddConstCtxt \/ AddConstPtxt
    \/ AddConstCtxt2 \/ SubCtxt2 \/ DecryptCtxt \/ PrintResults

---------------------------------------------------------------------------
(* Twilio::send_message *)

\* if (converted_message_body.size() > 1600)
MaxBodyChars == 1600
\* http_code != 200
HTTP_OK == 200
\* http_code != 201
HTTP_CREATED == 201

(* Bounds of the model *)

\* converted sizes tried: 0..Slack and MaxBodyChars-Slack..MaxBodyChars+Slack
Slack == 2

BodySizes == (0..Slack) \cup ((MaxBodyChars - Slack)..(MaxBodyChars + Slack))

\* status codes a server may answer with
HttpStatuses == {HTTP_OK, HTTP_CREATED, 400, 401, 500}

NoTransfer == [done |-> FALSE, status |-> 0]

SendInit ==
    /\ tpc = "idle"
    /\ picture_url = ""
    /\ verbose = FALSE
    /\ body_size = -1
    /\ curl = "none"
    /\ transfer = NoTransfer
    /\ escaped = "none"
    /\ parameters = {}
    /\ opts = {}
    /\ res = "unset"
    /\ http_code = 0
    /\ response_stream = <<>>
    /\ response = <<"caller">>
    /\ ret = "none"
    /\ globalInits = 0
    /\ requests = 0
    /\ staleUse = FALSE

\* the call: send_message(to, from, message_body, response, picture_url, verbose)
Call ==
    /\ tpc = "idle"
    /\ \E pic \in {"", "url"} : picture_url' = pic
    /\ \E v \in BOOLEAN : verbose' = v
    /\ tpc' = "convert"
    /\ UNCHANGED mainVars
    /\ UNCHANGED <<body_size, curl, transfer, escaped, parameters, opts, res,
                   http_code, response_stream, response, ret, globalInits,
                   requests, staleUse>>

\* try { converted_message_body = utf8_to_ucs2(message_body); }
\* catch (const std::range_error& e) { response = e.what(); return false; }
ConvertThrows ==
    /\ tpc = "convert"
    /\ response' = <<"range_error">>
    /\ ret' = FALSE
    /\ tpc' = "done"
    /\ UNCHANGED mainVars
    /\ UNCHANGED <<picture_url, verbose, body_size, curl, transfer, escaped,
                   parameters, opts, res, http_code, response_stream,
                   globalInits, requests, staleUse>>

ConvertOk ==
    /\ tpc = "convert"
    /\ \E n \in BodySizes : body_size' = n
    /\ tpc' = "size"
    /\ UNCHANGED mainVars
    /\ UNCHANGED <<picture_url, verbose, curl, transfer, escaped, parameters,
                   opts, res, http_code, response_stream, response, ret,
                   globalInits, requests, staleUse>>

\* a faulty limit: rejects a body of exactly 1600 characters
TooLongBad(n) == n >= MaxBodyChars

\* converted_message_body.size() > 1600
TooLong(n) == n > MaxBodyChars

\* if (size > 1600) { response = "Message body must have ..."; return false; }
SizeRejected ==
    /\ tpc = "size"
    /\ TooLong(body_size)
    /\ response_stream' = <<"too_long", body_size>>
    /\ response' = <<"too_long", body_size>>
    /\ ret' = FALSE
    /\ tpc' = "done"
    /\ UNCHANGED mainVars
    /\ UNCHANGED <<picture_url, verbose, body_size, curl, transfer, escaped,
                   parameters, opts, res, http_code, globalInits, requests,
                   staleUse>>

SizeAccepted ==
    /\ tpc = "size"
    /\ ~TooLong(body_size)
    /\ tpc' = "init"
    /\ UNCHANGED mainVars
    /\ UNCHANGED <<picture_url, verbose, body_size, curl, transfer, escaped,
                   parameters, opts, res, http_code, response_stream, response,
                   ret, globalInits, requests, staleUse>>

\* curl_global_init(CURL_GLOBAL_ALL); curl = curl_easy_init();
\* curl_easy_init returns a handle, or NULL when it fails
CurlInit ==
    /\ tpc = "init"
    /\ globalInits' = globalInits + 1
    /\ \E h \in {"live", "null"} : curl' = h
    /\ tpc' = "escape"
    /\ UNCHANGED mainVars
    /\ UNCHANGED <<picture_url, verbose, body_size, transfer, escaped,
                   parameters, opts, res, http_code, response_stream, response,
                   ret, requests, staleUse>>

\* char *message_body_escaped = curl_easy_escape(curl, message_body.c_str(), 0)
Escape ==
    /\ tpc = "escape"
    /\ escaped' = "alloc"
    /\ tpc' = "params"
    /\ UNCHANGED mainVars
    /\ UNCHANGED <<picture_url, verbose, body_size, curl, transfer, parameters,
                   opts, res, http_code, response_stream, response, ret,
                   globalInits, requests, staleUse>>

\* url << ...; parameters << "To=" ... "&From=" ... "&Body=" ...;
\* if (!picture_url.empty()) parameters << "&MediaUrl=" << picture_url
BuildParameters ==
    /\ tpc = "params"
    /\ parameters' = IF picture_url # ""
                     THEN {"To", "From", "Body", "MediaUrl"}
                     ELSE {"To", "From", "Body"}
    /\ tpc' = "setopt"
    /\ UNCHANGED mainVars
    /\ UNCHANGED <<picture_url, verbose, body_size, curl, transfer, escaped,
                   opts, res, http_code, response_stream, response, ret,
                   globalInits, requests, staleUse>>

\* curl_easy_setopt(curl, CURLOPT_POST, 1) ... CURLOPT_WRITEFUNCTION
SetOptions ==
    /\ tpc = "setopt"
    /\ opts' = IF curl = "live"
               THEN {"POST", "URL", "POSTFIELDS", "USERNAME", "PASSWORD"}
                    \cup (IF verbose THEN {"stream_write", "WRITEDATA"}
                                     ELSE {"null_write"})
               ELSE {}
    /\ tpc' = "perform"
    /\ UNCHANGED mainVars
    /\ UNCHANGED <<picture_url, verbose, body_size, curl, transfer, escaped,
                   parameters, res, http_code, response_stream, response, ret,
                   globalInits, requests, staleUse>>

\* CURLcode res = curl_easy_perform(curl): the transfer fails (curl error),
\* or completes with the status the server answered
PerformFails ==
    /\ tpc = "perform"
    /\ requests' = requests + 1
    /\ res' = "error"
    /\ tpc' = "free"
    /\ UNCHANGED mainVars
    /\ UNCHANGED <<picture_url, verbose, body_size, curl, transfer, escaped,
                   parameters, opts, http_code, response_stream, response, ret,
                   globalInits, staleUse>>

PerformCompletes ==
    /\ tpc = "perform"
    /\ curl = "live"
    /\ requests' = requests + 1
    /\ res' = "CURLE_OK"
    /\ \E s \in HttpStatuses : transfer' = [done |-> TRUE, status |-> s]
    /\ response_stream' = IF "stream_write" \in opts THEN <<"twilio_body">>
                          ELSE response_stream
    /\ tpc' = "free"
    /\ UNCHANGED mainVars
    /\ UNCHANGED <<picture_url, verbose, body_size, curl, escaped, parameters,
                   opts, http_code, response, ret, globalInits, staleUse>>

\* curl_free(message_body_escaped)
CurlFree ==
    /\ tpc = "free"
    /\ escaped' = "freed"
    /\ tpc' = "cleanup"
    /\ UNCHANGED mainVars
    /\ UNCHANGED <<picture_url, verbose, body_size, curl, transfer, parameters,
                   opts, res, http_code, response_stream, response, ret,
                   globalInits, requests, staleUse>>

\* curl_easy_cleanup(curl): releases a live handle, does nothing on NULL
CurlCleanup ==
    /\ tpc = "cleanup"
    /\ curl' = IF curl = "live" THEN "freed" ELSE curl
    /\ tpc' = "getinfo"
    /\ UNCHANGED mainVars
    /\ UNCHANGED <<picture_url, verbose, body_size, transfer, escaped,
                   parameters, opts, res, http_code, response_stream, response,
                   ret, globalInits, requests, staleUse>>

\* what curl_easy_getinfo(h, CURLINFO_RESPONSE_CODE, &code) may leave in code,
\* code being 0 before the call: a live handle gives the last transfer's
\* status; NULL is refused and code stays 0; a released handle is a read of
\* freed memory, so any of: refused, the old status, or other contents.
GetInfoResults(h, t) ==
    CASE h = "live" -> {t.status}
      [] h = "freed" -> {0} \cup HttpStatuses
      [] OTHER -> {0}

\* long http_code = 0; curl_easy_getinfo(curl, CURLINFO_RESPONSE_CODE, &http_code)
GetInfo ==
    /\ tpc = "getinfo"
    /\ \E code \in GetInfoResults(curl, transfer) : http_code' = code
    /\ staleUse' = (staleUse \/ curl = "freed")
    /\ tpc' = "decide"
    /\ UNCHANGED mainVars
    /\ UNCHANGED <<picture_url, verbose, body_size, curl, transfer, escaped,
                   parameters, opts, res, response_stream, response, ret,
                   globalInits, requests>>

\* if (res != CURLE_OK) { response = curl_easy_strerror(res); return false; }
DecideCurlError ==
    /\ tpc = "decide"
    /\ res # "CURLE_OK"
    /\ response' = <<"curl_easy_strerror">>
    /\ ret' = FALSE
    /\ tpc' = "done"
    /\ UNCHANGED mainVars
    /\ UNCHANGED <<picture_url, verbose, body_size, curl, transfer, escaped,
                   parameters, opts, res, http_code, response_stream,
                   globalInits, requests, staleUse>>

\* else if (http_code != 200 && http_code != 201) { ...; return false; }
DecideBadStatus ==
    /\ tpc = "decide"
    /\ res = "CURLE_OK"
    /\ http_code # HTTP_OK /\ http_code # HTTP_CREATED
    /\ response' = response_stream
    /\ ret' = FALSE
    /\ tpc' = "done"
    /\ UNCHANGED mainVars
    /\ UNCHANGED <<picture_url, verbose, body_size, curl, transfer, escaped,
                   parameters, opts, res, http_code, response_stream,
                   globalInits, requests, staleUse>>

\* else { response = response_stream.str(); return true; }
DecideSuccess ==
    /\ tpc = "decide"
    /\ res = "CURLE_OK"
    /\ ~(http_code # HTTP_OK /\ http_code # HTTP_CREATED)
    /\ response' = response_stream
    /\ ret' = TRUE
    /\ tpc' = "done"
    /\ UNCHANGED mainVars
    /\ UNCHANGED <<picture_url, verbose, body_size, curl, transfer, escaped,
                   parameters, opts, res, http_code, response_stream,
                   globalInits, requests, staleUse>>

\* send_message: the step at tpc runs
SendNext ==
    \/ Call \/ ConvertThrows \/ ConvertOk \/ SizeRejected \/ SizeAccepted
    \/ CurlInit \/ Escape \/ BuildParameters \/ SetOptions
    \/ PerformFails \/ PerformCompletes \/ CurlFree \/ CurlCleanup
    \/ GetInfo \/ DecideCurlError \/ DecideBadStatus \/ DecideSuccess

---------------------------------------------------------------------------
(* Specifications *)

Init == MainInit /\ SendInit

\* the BGV session
Spec == Init /\ [][Next]_vars

\* one call of send_message
SendSpec == Init /\ [][SendNext]_vars

---------------------------------------------------------------------------
(* Properties of the BGV session (checked under Spec) *)

Encrypted(ct) == ct.pubKey # 0

\* the statements of main that follow ctxt -= ctxt and precede addConstant
AfterSubCtxt == mpc \in {"sub_p", "addc_c"}

\* C1: at the end of the session, decrypting ctxt2 (C2) gives, in slot 0,
\* the value the plaintext mirror ptxt holds in slot 0.
C1_PathsAgree ==
    mpc = "done" => Decrypt(secret_key, ctxt2)[1] = ptxt[1]

C9_ConstantsConsistent ==
    mpc = "addc_c2" =>
       /\ PtxtConstant % p = CtxtConstant % p
       /\ ptxt = Decrypt(secret_key, ctxt)

\* Order of the key set-up in main: key-switching matrices exist only for a
\* generated secret key, and a squared ciphertext only with the matrices.
KeySetupOrder ==
    /\ secret_key.ksMatrices => secret_key.generated
    /\ mpc \notin {"context", "modchain", "seckey", "gensk", "ksmat", "pubkey",
                   "nslots", "ptxt", "fill", "enc1", "enc2", "sq_c"}
          => secret_key.ksMatrices

---------------------------------------------------------------------------
(* Properties of send_message (checked under SendSpec) *)

Posted == res = "CURLE_OK" /\ transfer.done

\* C6: send_message returns true exactly when the POST completed without a
\* curl error and the status of that POST is 200 or 201.
C6_TrueIffPostedOk ==
    tpc = "done" =>
       ((ret = TRUE) <=> (Posted /\ transfer.status \in {HTTP_OK, HTTP_CREATED}))

\* C8: when the conversion throws, or the converted body has more than 1600
\* characters, send_message returns false with a descriptive response and
\* neither initialises curl nor sends a request; a body of 1600 characters
\* or fewer passes the size check and reaches curl initialisation.
C8_OversizeRejectedBeforeCurl ==
    /\ body_size > MaxBodyChars =>
          /\ globalInits = 0 /\ curl = "none" /\ requests = 0
          /\ tpc = "done" =>
                ret = FALSE /\ response = <<"too_long", body_size>>
    /\ (tpc = "done" /\ body_size = -1) =>
          /\ globalInits = 0 /\ curl = "none" /\ requests = 0
          /\ ret = FALSE /\ response = <<"range_error">>
    /\ (tpc = "done" /\ body_size >= 0 /\ body_size <= MaxBodyChars) =>
          /\ globalInits = 1 /\ requests = 1
          /\ response # <<"too_long", body_size>>

\* C8 witness: a body of 1601 characters was rejected, nothing was sent.
C8_Witness ==
    /\ tpc = "done"
    /\ body_size = MaxBodyChars + 1
    /\ ret = FALSE
    /\ response = <<"too_long", MaxBodyChars + 1>>
    /\ requests = 0

\* C10: no operation is performed on the easy handle after curl_easy_cleanup
\* released it; the response code is read while the handle is live.
C10_NoUseAfterCleanup ==
    /\ ~staleUse
    /\ tpc = "getinfo" => curl # "freed"

===========================================================================
